---- MODULE Spec2Model ----
(***************************************************************************)
(* Model of the emotion classifier: emotion_model.py (dataset provider,    *)
(* text normaliser, module start-up, the two prediction functions) and the *)
(* part of app.py that imports and calls it.                               *)
(*                                                                         *)
(* A Python str is a sequence of one-character strings.  A probability is  *)
(* an integer number of 1/10000 (basis points); a confidence is an integer *)
(* number of tenths of a percent, so 50.0 is 500 and 100.0 is 1000.        *)
(***************************************************************************)
EXTENDS Integers, Sequences, FiniteSets, TLC

\* ------------------------------------------------------------------------
\* Bounds of the model.
\* ------------------------------------------------------------------------

\* Longest raw text the normaliser is applied to in SpecText.
MaxTextLen == 6

\* Number of process runs (imports of emotion_model) a behaviour may hold.
MaxRuns == 2

\* ------------------------------------------------------------------------
\* Characters.
\* ------------------------------------------------------------------------

UpperChars == <<"A", "B", "C", "D", "E", "F", "G", "H", "I", "J", "K", "L", "M",
                "N", "O", "P", "Q", "R", "S", "T", "U", "V", "W", "X", "Y", "Z">>

LowerChars == <<"a", "b", "c", "d", "e", "f", "g", "h", "i", "j", "k", "l", "m",
                "n", "o", "p", "q", "r", "s", "t", "u", "v", "w", "x", "y", "z">>

Range(s) == {s[i] : i \in DOMAIN s}

DigitChars == {"0", "1", "2", "3", "4", "5", "6", "7", "8", "9"}

\* \s of the re module.
SpaceChars == {" ", "\t", "\n", "\r"}

\* \w of the re module, on the characters of the model.
WordChars == Range(UpperChars) \cup Range(LowerChars) \cup DigitChars \cup {"_"}

\* str.lower() on one character.
LowerChar(c) ==
    IF c \in Range(UpperChars)
    THEN LowerChars[CHOOSE i \in DOMAIN UpperChars : UpperChars[i] = c]
    ELSE c

\* ------------------------------------------------------------------------
\* clean_text, step by step.
\* ------------------------------------------------------------------------

\* str(text).lower()
Lower(s) == [i \in DOMAIN s |-> LowerChar(s[i])]

RECURSIVE DropNonSpace(_)
\* The rest of s after its longest prefix of non-space characters (\S+ is greedy).
DropNonSpace(s) ==
    IF s = <<>> \/ Head(s) \in SpaceChars THEN s ELSE DropNonSpace(Tail(s))

\* Whether 'http\S+' matches at the start of s.
UrlAt(s) ==
    /\ Len(s) >= 5
    /\ SubSeq(s, 1, 4) = <<"h", "t", "t", "p">>
    /\ s[5] \notin SpaceChars

RECURSIVE RemoveUrls(_)
\* re.sub(r'http\S+', '', text): leftmost non-overlapping matches, in one pass.
RemoveUrls(s) ==
    IF s = <<>> THEN <<>>
    ELSE IF UrlAt(s) THEN RemoveUrls(DropNonSpace(SubSeq(s, 5, Len(s))))
    ELSE <<Head(s)>> \o RemoveUrls(Tail(s))

IsWordOrSpace(c) == c \in WordChars \cup SpaceChars

\* re.sub(r'[^\w\s]', '', text)
RemovePunctuation(s) == SelectSeq(s, IsWordOrSpace)

IsNotDigit(c) == c \notin DigitChars

\* A normaliser that forgets the digit pass (mutant of RemoveDigits).
RemoveDigitsSkipped(s) == s

\* re.sub(r'\d+', '', text)
RemoveDigits(s) == SelectSeq(s, IsNotDigit)

RECURSIVE DropSpaces(_)
\* The rest of s after its longest prefix of whitespace.
DropSpaces(s) ==
    IF s = <<>> \/ Head(s) \notin SpaceChars THEN s ELSE DropSpaces(Tail(s))

RECURSIVE CollapseSpaces(_)
\* re.sub(r'\s+', ' ', text): every maximal run of whitespace becomes one space.
CollapseSpaces(s) ==
    IF s = <<>> THEN <<>>
    ELSE IF Head(s) \in SpaceChars
         THEN <<" ">> \o CollapseSpaces(DropSpaces(Tail(s)))
         ELSE <<Head(s)>> \o CollapseSpaces(Tail(s))

\* str.strip() of a string whose whitespace is already single spaces.
Strip(s) ==
    LET a == IF s # <<>> /\ Head(s) \in SpaceChars THEN Tail(s) ELSE s
    IN  IF a # <<>> /\ a[Len(a)] \in SpaceChars THEN SubSeq(a, 1, Len(a) - 1) ELSE a

\* clean_text(text) for a str argument.
clean_text(text) ==
    Strip(CollapseSpaces(RemoveDigits(RemovePunctuation(RemoveUrls(Lower(text))))))

\* ------------------------------------------------------------------------
\* Column names and labels.
\* ------------------------------------------------------------------------

\* 'text'
TextCol == <<"t", "e", "x", "t">>

\* 'emotion'
EmotionCol == <<"e", "m", "o", "t", "i", "o", "n">>

\* 'clean_text'
CleanTextCol == <<"c", "l", "e", "a", "n", "_", "t", "e", "x", "t">>

Happy == <<"h", "a", "p", "p", "y">>

Sad == <<"s", "a", "d">>

Angry == <<"a", "n", "g", "r", "y">>

Fear == <<"f", "e", "a", "r">>

Neutral == <<"n", "e", "u", "t", "r", "a", "l">>

\* A label outside the five of the built-in dataset, as a persisted file may hold.
Joy == <<"j", "o", "y">>

\* The labels of the built-in dataset, which are the keys of emotion_colors and
\* emotion_emojis in app.py.
Emotions == {Happy, Sad, Angry, Fear, Neutral}

\* The rows of the default DataFrame, (text, emotion), in order.
BuiltinRows ==
    << <<<<"I", " ", "a", "m", " ", "h", "a", "p", "p", "y">>, Happy>>,
       <<<<"I", " ", "f", "e", "e", "l", " ", "g", "r", "e", "a", "t">>, Happy>>,
       <<<<"T", "h", "i", "s", " ", "i", "s", " ", "w", "o", "n", "d", "e", "r", "f", "u", "l">>, Happy>>,
       <<<<"I", " ", "a", "m", " ", "s", "a", "d">>, Sad>>,
       <<<<"T", "h", "i", "s", " ", "i", "s", " ", "t", "e", "r", "r", "i", "b", "l", "e">>, Sad>>,
       <<<<"I", " ", "f", "e", "e", "l", " ", "b", "a", "d">>, Sad>>,
       <<<<"I", " ", "a", "m", " ", "a", "n", "g", "r", "y">>, Angry>>,
       <<<<"T", "h", "i", "s", " ", "m", "a", "k", "e", "s", " ", "m", "e", " ", "m", "a", "d">>, Angry>>,
       <<<<"I", " ", "h", "a", "t", "e", " ", "t", "h", "i", "s">>, Angry>>,
       <<<<"I", " ", "a", "m", " ", "s", "c", "a", "r", "e", "d">>, Fear>>,
       <<<<"T", "h", "i", "s", " ", "i", "s", " ", "f", "r", "i", "g", "h", "t", "e", "n", "i", "n", "g">>, Fear>>,
       <<<<"I", " ", "f", "e", "e", "l", " ", "a", "f", "r", "a", "i", "d">>, Fear>>,
       <<<<"T", "h", "i", "s", " ", "i", "s", " ", "n", "o", "r", "m", "a", "l">>, Neutral>>,
       <<<<"N", "o", "t", "h", "i", "n", "g", " ", "s", "p", "e", "c", "i", "a", "l">>, Neutral>>,
       <<<<"R", "e", "g", "u", "l", "a", "r", " ", "d", "a", "y">>, Neutral>> >>

\* The texts of the persisted datasets of the model: five of one class, then five
\* of another.
SampleTexts ==
    << <<"s", "o", " ", "g", "l", "a", "d">>,
       <<"g", "r", "e", "a", "t", " ", "d", "a", "y">>,
       <<"w", "h", "a", "t", " ", "f", "u", "n">>,
       <<"l", "o", "v", "e", "l", "y">>,
       <<"j", "o", "y", "f", "u", "l">>,
       <<"s", "o", " ", "l", "o", "w">>,
       <<"b", "a", "d", " ", "d", "a", "y">>,
       <<"i", "n", " ", "t", "e", "a", "r", "s">>,
       <<"g", "l", "o", "o", "m", "y">>,
       <<"h", "u", "r", "t">> >>


\* ------------------------------------------------------------------------
\* DataFrames and the CSV file.
\*
\* A DataFrame is [columns |-> names, rows |-> rows], a row holding one field
\* for each column, in the order of columns.  A field is a string or NaN.
\* ------------------------------------------------------------------------

\* float('nan'), the missing value of pandas.
NaN == <<"NaN">>

\* str(field): str(float('nan')) is 'nan'.
StrOf(field) == IF field = NaN THEN <<"n", "a", "n">> ELSE field

\* pd.DataFrame({'text': [...], 'emotion': [...]}) of the default dataset.
BuiltinData == [columns |-> <<TextCol, EmotionCol>>, rows |-> BuiltinRows]

\* The characters that make csv.QUOTE_MINIMAL quote a field.
NeedsQuote(f) == \E i \in DOMAIN f : f[i] \in {",", "\"", "\n", "\r"}

RECURSIVE DoubleQuotes(_)
\* The field with every quote character doubled.
DoubleQuotes(f) ==
    IF f = <<>> THEN <<>>
    ELSE (IF Head(f) = "\"" THEN <<"\"", "\"">> ELSE <<Head(f)>>) \o DoubleQuotes(Tail(f))

\* One field as to_csv writes it: NaN as the empty string, quoted when needed.
WriteField(f) ==
    IF f = NaN THEN <<>>
    ELSE IF NeedsQuote(f) THEN <<"\"">> \o DoubleQuotes(f) \o <<"\"">>
    ELSE f

RECURSIVE WriteRecord(_)
\* The fields of one record joined by commas and ended by a line feed.
WriteRecord(fields) ==
    IF fields = <<>> THEN <<"\n">>
    ELSE IF Len(fields) = 1 THEN WriteField(fields[1]) \o <<"\n">>
    ELSE WriteField(Head(fields)) \o <<",">> \o WriteRecord(Tail(fields))

RECURSIVE WriteRecords(_)
WriteRecords(records) ==
    IF records = <<>> THEN <<>>
    ELSE WriteRecord(Head(records)) \o WriteRecords(Tail(records))

\* to_csv that leaves the header line out (header=False): a mutant of to_csv.
to_csv_no_header(df) == WriteRecords(df.rows)

\* data.to_csv(path, index=False): the header line, then one line for each row.
to_csv(df) == WriteRecord(df.columns) \o WriteRecords(df.rows)

\* Whether position i of CSV text s lies inside a quoted field: an odd number
\* of quote characters precedes it (a doubled quote counts twice).
InQuotes(s, i) == Cardinality({j \in 1..(i - 1) : s[j] = "\""}) % 2 = 1

\* The positions of s, in order, at which character c stands outside quotes.
Separators(s, c) ==
    LET IsSeparator(i) == s[i] = c /\ ~InQuotes(s, i)
    IN  SelectSeq([i \in 1..Len(s) |-> i], IsSeparator)

\* The pieces of s[from..to] between the separator positions seps that lie in
\* that range, each piece as <<first, last>> positions (last < first: empty).
Pieces(seps, from, to) ==
    LET inside(p) == from <= p /\ p <= to
        cuts == SelectSeq(seps, inside)
    IN  [k \in 1..(Len(cuts) + 1) |->
            << IF k = 1 THEN from ELSE cuts[k - 1] + 1,
               IF k = Len(cuts) + 1 THEN to ELSE cuts[k] - 1 >>]

\* The field written at s[from..to]: the enclosing quotes dropped and a doubled
\* quote read as one.
FieldAt(s, from, to) ==
    LET Kept(i) ==
            \/ s[i] # "\""
            \/ ~InQuotes(s, i) /\ i > from /\ s[i - 1] = "\""
        at == SelectSeq([k \in 1..(to - from + 1) |-> from + k - 1], Kept)
    IN  [k \in DOMAIN at |-> s[at[k]]]

\* The records of CSV text s, a record being the fields of one line.  Blank
\* lines are skipped (skip_blank_lines=True).  [ok |-> FALSE] when the text ends
\* inside quotes.
ParseCsv(s) ==
    LET commas == Separators(s, ",")
        lines == Pieces(Separators(s, "\n"), 1, Len(s))
        NotBlank(l) == l[1] <= l[2]
        kept == SelectSeq(lines, NotBlank)
        Record(l) ==
            LET fs == Pieces(commas, l[1], l[2])
            IN  [k \in DOMAIN fs |-> FieldAt(s, fs[k][1], fs[k][2])]
    IN  IF InQuotes(s, Len(s) + 1) THEN [ok |-> FALSE, records |-> <<>>]
        ELSE [ok |-> TRUE, records |-> [k \in DOMAIN kept |-> Record(kept[k])]]

\* Strings read_csv turns into NaN (of its default na_values, those that a text
\* of the model can spell), the empty field among them.
NaStrings == {<<>>, <<"N", "A">>, <<"n", "a", "n">>, <<"N", "a", "N">>,
              <<"n", "u", "l", "l">>, <<"N", "U", "L", "L">>}

\* One field as read_csv returns it.
ReadField(f) == IF f \in NaStrings THEN NaN ELSE f

\* A row of n fields: missing trailing fields are NaN.
ReadRow(rec, n) == [j \in 1..n |-> IF j <= Len(rec) THEN ReadField(rec[j]) ELSE NaN]

\* pd.read_csv(path): the first record names the columns.  It raises
\* EmptyDataError on a file without records and ParserError on a text that ends
\* inside quotes or on a line with more fields than the header has.
read_csv(s) ==
    LET p == ParseCsv(s)
        none == [columns |-> <<>>, rows |-> <<>>]
    IN  IF ~p.ok THEN [error |-> "ParserError", df |-> none]
        ELSE IF p.records = <<>> THEN [error |-> "EmptyDataError", df |-> none]
        ELSE LET header == Head(p.records)
                 body == Tail(p.records)
             IN  IF \E k \in DOMAIN body : Len(body[k]) > Len(header)
                 THEN [error |-> "ParserError", df |-> none]
                 ELSE [error |-> "none",
                       df |-> [columns |-> header,
                               rows |-> [k \in DOMAIN body |->
                                            ReadRow(body[k], Len(header))]]]

\* The file system entry emotions_dataset.csv: absent, or a text.
NoFile == [exists |-> FALSE, content |-> <<>>]

FileOf(content) == [exists |-> TRUE, content |-> content]

\* load_dataset_from_csv(): [error, data, file], file being emotions_dataset.csv
\* after the call.
load_dataset_from_csv(f) ==
    IF f.exists
    THEN LET r == read_csv(f.content)
         IN  [error |-> r.error, data |-> r.df, file |-> f]
    ELSE [error |-> "none", data |-> BuiltinData, file |-> FileOf(to_csv(BuiltinData))]

\* ------------------------------------------------------------------------
\* The persisted files a run may find.
\* ------------------------------------------------------------------------

LabelCol == <<"l", "a", "b", "e", "l">>

MessageCol == <<"m", "e", "s", "s", "a", "g", "e">>

\* Rows 1..n of SampleTexts, the first `first` of them labelled a, the rest b.
Labelled(n, first, a, b) ==
    [k \in 1..n |-> <<SampleTexts[k], IF k <= first THEN a ELSE b>>]

Frame(c1, c2, rows) == [columns |-> <<c1, c2>>, rows |-> rows]

\* text,emotion / five happy, five sad.
GoodData == Frame(TextCol, EmotionCol, Labelled(10, 5, Happy, Sad))

\* text,emotion / five joy, five sad: a label app.py has no colour for.
JoyData == Frame(TextCol, EmotionCol, Labelled(10, 5, Joy, Sad))

\* text,emotion / five happy: one class only.
OneClassData == Frame(TextCol, EmotionCol, Labelled(5, 5, Happy, Sad))

\* text,emotion / five happy, one sad: a class too small to stratify.
LoneSampleData == Frame(TextCol, EmotionCol, Labelled(6, 5, Happy, Sad))

\* text,label: no emotion column.
NoEmotionData == Frame(TextCol, LabelCol, Labelled(10, 5, Happy, Sad))

\* message,emotion: no text column.
NoTextData == Frame(MessageCol, EmotionCol, Labelled(10, 5, Happy, Sad))

\* A file whose second row has three fields under a header of two.
RaggedCsv ==
    <<"t", "e", "x", "t", ",", "e", "m", "o", "t", "i", "o", "n", "\n",
      "h", "i", ",", "s", "a", "d", "\n",
      "h", "i", ",", "y", "o", "u", ",", "s", "a", "d", "\n">>

Files ==
    {NoFile, FileOf(RaggedCsv)} \cup
    {FileOf(to_csv(d)) : d \in {GoodData, JoyData, OneClassData, LoneSampleData,
                                NoEmotionData, NoTextData}}

\* ------------------------------------------------------------------------
\* Start-up: column access, the split, the fit.
\* ------------------------------------------------------------------------

\* The position of column `name` in df, 0 when df has no such column
\* (data[name] then raises KeyError).
ColumnIndex(df, name) ==
    IF \E i \in DOMAIN df.columns : df.columns[i] = name
    THEN CHOOSE i \in DOMAIN df.columns :
            /\ df.columns[i] = name
            /\ \A j \in DOMAIN df.columns : df.columns[j] = name => i <= j
    ELSE 0

\* data[name] as a sequence of fields.
Column(df, name) == [k \in DOMAIN df.rows |-> df.rows[k][ColumnIndex(df, name)]]

\* data['clean_text'] = data['text'].apply(clean_text)
WithCleanText(df) ==
    [columns |-> Append(df.columns, CleanTextCol),
     rows |-> [k \in DOMAIN df.rows |->
                  Append(df.rows[k],
                         clean_text(StrOf(df.rows[k][ColumnIndex(df, TextCol)])))]]

\* test_size=0.2, in percent.
TestSizePercent == 20

\* The number of test samples of n samples: ceil(test_size * n).
TestCount(n) == (TestSizePercent * n + 99) \div 100

\* train_test_split(X, y, test_size=0.2, random_state=42, stratify=y): the sizes
\* of the two parts and the classes, or ValueError: when a part would be empty,
\* a class has fewer than two samples, or a part has fewer samples than there
\* are classes.  Every class keeps at least one training sample, so the classes
\* of y_train are those of y.
train_test_split(y) ==
    LET n == Len(y)
        nTest == TestCount(n)
        nTrain == n - nTest
        classes == Range(y)
        count(c) == Cardinality({k \in DOMAIN y : y[k] = c})
        bad ==
            \/ nTrain = 0
            \/ \E c \in classes : count(c) < 2
            \/ nTrain < Cardinality(classes)
            \/ nTest < Cardinality(classes)
    IN  [error |-> IF bad THEN "ValueError" ELSE "none",
         nTrain |-> nTrain, nTest |-> nTest, classes |-> classes]

\* stopwords.words('english'): the words of the list that the texts of the
\* model hold.
StopWords ==
    {<<"a", "m">>, <<"i", "s">>, <<"m", "e">>, <<"s", "o">>, <<"i", "n">>,
     <<"t", "h", "i", "s">>, <<"w", "h", "a", "t">>}

\* Whether the vectorizer finds a term in a cleaned text: a run of two or more
\* word characters (token_pattern \b\w\w+\b) that is no stop word.
HasTerm(doc) ==
    LET IsSpace(i) == doc[i] \in SpaceChars
        words == Pieces(SelectSeq([i \in 1..Len(doc) |-> i], IsSpace), 1, Len(doc))
    IN  \E k \in DOMAIN words :
            /\ words[k][2] - words[k][1] >= 1
            /\ SubSeq(doc, words[k][1], words[k][2]) \notin StopWords

\* The outcomes of building the pipeline and of model.fit(X_train, y_train), given
\* the cleaned texts X and the classes of the training part: LookupError when
\* the stop word corpus is missing, ValueError on an empty vocabulary or on
\* fewer than two classes.  Which rows are training rows is not modelled: when
\* only some rows hold a term, the vocabulary may or may not be empty.
FitErrors(environment, X, classes) ==
    IF environment = "nostopwords" THEN {"LookupError"}
    ELSE IF \A k \in DOMAIN X : ~HasTerm(X[k]) THEN {"ValueError"}
    ELSE IF Cardinality(classes) < 2 THEN {"ValueError"}
    ELSE IF \A k \in DOMAIN X : HasTerm(X[k]) THEN {"none"}
    ELSE {"none", "ValueError"}

\* ------------------------------------------------------------------------
\* The fitted model and the two prediction functions.
\* ------------------------------------------------------------------------

\* An argument whose str() raises: the functions accept any object.
BadObject == <<"object">>

\* 'Hi 5!'
Greeting == <<"H", "i", " ", "5", "!">>

\* 'HI'
Shout == <<"H", "I">>

\* '  '
Blank == <<" ", " ">>

\* The arguments a client calls the prediction functions with.
Inputs == {<<>>, Greeting, BadObject}

\* The texts typed into the text area of app.py.
AppTexts == {Greeting, Shout, Blank}

\* [raised, value] of clean_text(text) for any argument.
CleanCall(t) ==
    IF t = BadObject THEN [raised |-> TRUE, value |-> <<>>]
    ELSE [raised |-> FALSE, value |-> clean_text(t)]

\* The cleaned texts the fitted model is asked about.
CleanInputs == {CleanCall(t).value : t \in Inputs \cup AppTexts}

\* Probabilities, as numbers of 1/10000.
Levels == {0, 3333, 6667, 10000}

RECURSIVE Sum(_, _)
Sum(v, S) ==
    IF S = {} THEN 0
    ELSE LET c == CHOOSE c \in S : TRUE IN v[c] + Sum(v, S \ {c})

\* What predict_proba can return for one text: a distribution over the classes.
ProbaVectors(classes) == {v \in [classes -> Levels] : Sum(v, classes) = 10000}

\* The classes of largest probability.
ArgMax(v) == {c \in DOMAIN v : \A d \in DOMAIN v : v[d] <= v[c]}

\* What a fitted pipeline does on one cleaned text: predict returns label, a
\* class of largest probability, or raises; predict_proba returns proba or
\* raises.  Both are functions of the text: the same text, the same outcome.
Outcomes(classes) ==
    {o \in [predictRaises : BOOLEAN, label : classes,
            probaRaises : BOOLEAN, proba : ProbaVectors(classes)] :
        o.label \in ArgMax(o.proba)}

\* The pipelines model.fit can leave behind for training classes `classes`.
\* hasProba is hasattr(model, 'predict_proba').
FittedModels(classes) ==
    [fitted : {TRUE}, classes : {classes}, hasProba : BOOLEAN,
     out : [CleanInputs -> Outcomes(classes)]]

\* The Pipeline object before a successful fit.
NotFitted == [fitted |-> FALSE, classes |-> {}, hasProba |-> TRUE, out |-> <<>>]

\* The outcome of the pipeline m on cleaned text c; a pipeline that was never
\* fitted raises NotFittedError from both methods.
OutcomeOf(m, c) ==
    IF m.fitted THEN m.out[c]
    ELSE [predictRaises |-> TRUE, label |-> <<>>, probaRaises |-> TRUE, proba |-> <<>>]

\* A handler that lets the exception through: a mutant of OnPredictionError.
OnPredictionErrorRaise == [raised |-> TRUE, label |-> <<>>]

\* except Exception: return "neutral"
OnPredictionError == [raised |-> FALSE, label |-> Neutral]

\* predict_emotion(text) on pipeline m: [raised, label].
predict_emotion(m, t) ==
    LET c == CleanCall(t)
        o == OutcomeOf(m, c.value)
    IN  IF c.raised \/ o.predictRaises THEN OnPredictionError
        ELSE [raised |-> FALSE, label |-> o.label]

\* A percentage computed as p * 1000: a mutant of Percent.
PercentTimesTen(p) == p

\* round(float(p * 100), 1) for probability p, in tenths of a percent.
Percent(p) == (p + 5) \div 10

\* Default confidence of a model without predict_proba (75.0).
DefaultConfidence == 750

\* Confidence returned with "neutral" after an exception (50.0).
ErrorConfidence == 500

\* except Exception: return "neutral", 50.0
OnConfidenceError == [raised |-> FALSE, label |-> Neutral, confidence |-> ErrorConfidence]

\* predict_emotion_with_confidence(text) on pipeline m: [raised, label, confidence].
predict_emotion_with_confidence(m, t) ==
    LET c == CleanCall(t)
        o == OutcomeOf(m, c.value)
    IN  IF c.raised THEN OnConfidenceError
        ELSE IF m.hasProba
        THEN IF o.probaRaises \/ o.predictRaises THEN OnConfidenceError
             ELSE [raised |-> FALSE, label |-> o.label,
                   confidence |-> Percent(o.proba[o.label])]
        ELSE IF o.predictRaises THEN OnConfidenceError
        ELSE [raised |-> FALSE, label |-> o.label, confidence |-> DefaultConfidence]

\* ------------------------------------------------------------------------
\* State.
\* ------------------------------------------------------------------------

VARIABLES
    text,         \* SpecText: the raw string handed to clean_text
    stage,        \* SpecText: how many times clean_text has been applied (0, 1, 2)
    cleaned,      \* SpecText: clean_text(text), once stage >= 1
    recleaned,    \* SpecText: clean_text(cleaned), once stage = 2
    file,         \* emotions_dataset.csv in the working directory
    environment,  \* "ok", "nolibs" (an import fails), "nostopwords" (no NLTK corpus)
    mode,         \* who runs emotion_model: "script", "app" (app.py), "client"
    run,          \* number of the process run, from 1
    pc,           \* the statement of emotion_model.py the run is at
    failure,      \* the exception that ended start-up: [at, error]
    data,         \* the DataFrame `data`
    X,            \* data['clean_text']
    y,            \* data['emotion']
    split,        \* sizes and classes of the train/test split
    model,        \* the Pipeline `model`
    facade,       \* whether the two prediction functions are defined
    loads,        \* history: the calls of load_dataset_from_csv and what they returned
    lastPredict,  \* history: the last predict_emotion call and its result
    lastConf,     \* history: the last predict_emotion_with_confidence call
    app,          \* app.py: "off", "importing", "retrying", "serving", "stopped", "crashed"
    display       \* app.py: what the page shows after the button

textVars == <<text, stage, cleaned, recleaned>>

envVars == <<file, environment, mode, run>>

startVars == <<pc, failure, data, X, y, split, model, facade, loads>>

callVars == <<lastPredict, lastConf, app, display>>

vars == <<textVars, envVars, startVars, callVars>>

Modes == {"script", "app", "client"}

NoFailure == [at |-> "none", error |-> "none"]

NoData == [columns |-> <<>>, rows |-> <<>>]

NoSplit == [error |-> "none", nTrain |-> 0, nTest |-> 0, classes |-> {}]

NoCall == [called |-> FALSE, input |-> <<>>, raised |-> FALSE, label |-> <<>>]

NoConfCall ==
    [called |-> FALSE, input |-> <<>>, raised |-> FALSE, label |-> <<>>, confidence |-> 0]

NoDisplay == [kind |-> "none", emotion |-> <<>>, confidence |-> 0, known |-> FALSE]

\* The state of a process that has not started.
Idle ==
    /\ file = NoFile
    /\ environment = "ok"
    /\ mode = "script"
    /\ run = 0
    /\ pc = "idle"
    /\ failure = NoFailure
    /\ data = NoData
    /\ X = <<>>
    /\ y = <<>>
    /\ split = NoSplit
    /\ model = NotFitted
    /\ facade = FALSE
    /\ loads = <<>>
    /\ lastPredict = NoCall
    /\ lastConf = NoConfCall
    /\ app = "off"
    /\ display = NoDisplay

\* ------------------------------------------------------------------------
\* SpecText: clean_text as a pure function over every short string.
\* ------------------------------------------------------------------------

\* The characters raw texts are drawn from: the letters of 'http', an upper-case
\* letter, a digit, a punctuation mark and a space.
Alphabet == {"h", "t", "p", "T", "7", ".", " "}

Strings(n) == UNION {[1..k -> Alphabet] : k \in 0..n}

InitText ==
    /\ text \in Strings(MaxTextLen)
    /\ stage = 0
    /\ cleaned = <<>>
    /\ recleaned = <<>>
    /\ Idle

\* cleaned = clean_text(text)
Clean ==
    /\ stage = 0
    /\ cleaned' = clean_text(text)
    /\ stage' = 1
    /\ UNCHANGED <<text, recleaned, envVars, startVars, callVars>>

\* recleaned = clean_text(cleaned)
CleanAgain ==
    /\ stage = 1
    /\ recleaned' = clean_text(cleaned)
    /\ stage' = 2
    /\ UNCHANGED <<text, cleaned, envVars, startVars, callVars>>

NextText == Clean \/ CleanAgain

SpecText == InitText /\ [][NextText]_vars

\* ------------------------------------------------------------------------
\* Spec: runs of emotion_model.py, alone, under app.py or under another client.
\* ------------------------------------------------------------------------

\* The state of app.py as a run begins.
AppStart(m) == IF m = "app" THEN "importing" ELSE "off"

\* The module-level state as a run begins.
Fresh ==
    /\ pc' = "setup"
    /\ failure' = NoFailure
    /\ data' = NoData
    /\ X' = <<>>
    /\ y' = <<>>
    /\ split' = NoSplit
    /\ model' = NotFitted
    /\ facade' = FALSE
    /\ lastPredict' = NoCall
    /\ lastConf' = NoConfCall
    /\ display' = NoDisplay

Init ==
    /\ text = <<>>
    /\ stage = 0
    /\ cleaned = <<>>
    /\ recleaned = <<>>
    /\ file \in Files
    /\ environment \in {"ok", "nolibs", "nostopwords"}
    /\ mode \in Modes
    /\ run = 1
    /\ pc = "setup"
    /\ failure = NoFailure
    /\ data = NoData
    /\ X = <<>>
    /\ y = <<>>
    /\ split = NoSplit
    /\ model = NotFitted
    /\ facade = FALSE
    /\ loads = <<>>
    /\ lastPredict = NoCall
    /\ lastConf = NoConfCall
    /\ app = AppStart(mode)
    /\ display = NoDisplay

\* A module-level statement that swallows its exception: a mutant of Propagates.
PropagatesNever(err) == FALSE

\* Whether outcome err of a module-level statement leaves the module: none of
\* the start-up statements stands inside a try block.
Propagates(err) == err # "none"

\* An exception leaves emotion_model.py at statement `at`.  Under app.py the
\* first import catches ImportError and imports again, which runs the module
\* from its first line; the second import catches any Exception and stops the
\* script (st.stop()); any other exception ends the script run.
Raise(at, err) ==
    /\ failure' = [at |-> at, error |-> err]
    /\ IF mode = "app" /\ app = "importing" /\ err = "ImportError"
       THEN /\ pc' = "setup"
            /\ app' = "retrying"
       ELSE /\ pc' = "failed"
            /\ app' = IF mode # "app" THEN app
                      ELSE IF app = "retrying" THEN "stopped" ELSE "crashed"

\* The end of a start-up statement with outcome err.
Step(at, next, err) ==
    IF Propagates(err) THEN Raise(at, err)
    ELSE /\ pc' = next
         /\ UNCHANGED <<failure, app>>

\* Lines 1-26: the imports and the NLTK check (whose own failure is caught).
Setup ==
    /\ pc = "setup"
    /\ Step("setup", "load", IF environment = "nolibs" THEN "ImportError" ELSE "none")
    /\ UNCHANGED <<textVars, envVars, data, X, y, split, model, facade, loads,
                   lastPredict, lastConf, display>>

\* Line 74: data = load_dataset_from_csv()
Load ==
    /\ pc = "load"
    /\ LET r == load_dataset_from_csv(file)
       IN  /\ file' = r.file
           /\ data' = IF r.error = "none" THEN r.data ELSE data
           /\ loads' = Append(loads, [run |-> run, existed |-> file.exists,
                                      error |-> r.error, data |-> r.data,
                                      wrote |-> r.file # file])
           /\ Step("load", "clean", r.error)
    /\ UNCHANGED <<textVars, environment, mode, run, X, y, split, model, facade,
                   lastPredict, lastConf, display>>

\* Line 78: data['clean_text'] = data['text'].apply(clean_text)
CleanColumn ==
    /\ pc = "clean"
    /\ LET err == IF ColumnIndex(data, TextCol) = 0 THEN "KeyError" ELSE "none"
       IN  /\ data' = IF err = "none" THEN WithCleanText(data) ELSE data
           /\ Step("clean", "select", err)
    /\ UNCHANGED <<textVars, envVars, X, y, split, model, facade, loads,
                   lastPredict, lastConf, display>>

\* Lines 80-85: the class distribution, X = data['clean_text'], y = data['emotion']
Select ==
    /\ pc = "select"
    /\ LET err == IF ColumnIndex(data, EmotionCol) = 0 \/ ColumnIndex(data, CleanTextCol) = 0
                  THEN "KeyError" ELSE "none"
       IN  /\ X' = IF err = "none" THEN Column(data, CleanTextCol) ELSE X
           /\ y' = IF err = "none" THEN Column(data, EmotionCol) ELSE y
           /\ Step("select", "split", err)
    /\ UNCHANGED <<textVars, envVars, data, split, model, facade, loads,
                   lastPredict, lastConf, display>>

\* Lines 88-93: the stratified train/test split.
Split ==
    /\ pc = "split"
    /\ LET r == train_test_split(y)
       IN  /\ split' = IF r.error = "none" THEN r ELSE split
           /\ Step("split", "fit", r.error)
    /\ UNCHANGED <<textVars, envVars, data, X, y, model, facade, loads,
                   lastPredict, lastConf, display>>

\* Lines 97-109: the pipeline is built and fitted.
Fit ==
    /\ pc = "fit"
    /\ \E err \in FitErrors(environment, X, split.classes) :
          /\ IF err = "none"
             THEN model' \in FittedModels(split.classes)
             ELSE model' = model
          /\ Step("fit", "evaluate", err)
    /\ UNCHANGED <<textVars, envVars, data, X, y, split, facade, loads,
                   lastPredict, lastConf, display>>

\* Lines 112-120: model.predict(X_test) and the report; a pipeline that is not
\* fitted raises NotFittedError.
Evaluate ==
    /\ pc = "evaluate"
    /\ Step("evaluate", "define", IF model.fitted THEN "none" ELSE "NotFittedError")
    /\ UNCHANGED <<textVars, envVars, data, X, y, split, model, facade, loads,
                   lastPredict, lastConf, display>>

\* Lines 123-159: the two def statements.
Define ==
    /\ pc = "define"
    /\ facade' = TRUE
    /\ Step("define", "selftest", "none")
    /\ UNCHANGED <<textVars, envVars, data, X, y, split, model, loads,
                   lastPredict, lastConf, display>>

\* Lines 162-184: predict_emotion_with_confidence on the five test cases, whose
\* results are printed and dropped; the import then returns to app.py.
SelfTest ==
    /\ pc = "selftest"
    /\ facade
    /\ pc' = "ready"
    /\ app' = IF mode = "app" THEN "serving" ELSE app
    /\ UNCHANGED <<textVars, envVars, failure, data, X, y, split, model, facade,
                   loads, lastPredict, lastConf, display>>

\* The script run as __main__ ends after its last line.
Exit ==
    /\ pc = "ready"
    /\ mode = "script"
    /\ pc' = "exited"
    /\ UNCHANGED <<textVars, envVars, failure, data, X, y, split, model, facade,
                   loads, callVars>>

\* An exception leaves a prediction function and ends the caller.
Crash(at) ==
    /\ pc' = "failed"
    /\ failure' = [at |-> at, error |-> "Exception"]

\* A client calls predict_emotion(t).
PredictEmotion(t) ==
    /\ pc = "ready"
    /\ mode = "client"
    /\ facade
    /\ LET r == predict_emotion(model, t)
       IN  /\ lastPredict' = [called |-> TRUE, input |-> t, raised |-> r.raised,
                              label |-> r.label]
           /\ IF r.raised THEN Crash("predict_emotion")
              ELSE UNCHANGED <<pc, failure>>
    /\ UNCHANGED <<textVars, envVars, data, X, y, split, model, facade, loads,
                   lastConf, app, display>>

\* A client calls predict_emotion_with_confidence(t).
PredictEmotionWithConfidence(t) ==
    /\ pc = "ready"
    /\ mode = "client"
    /\ facade
    /\ LET r == predict_emotion_with_confidence(model, t)
       IN  /\ lastConf' = [called |-> TRUE, input |-> t, raised |-> r.raised,
                           label |-> r.label, confidence |-> r.confidence]
           /\ IF r.raised THEN Crash("predict_emotion_with_confidence")
              ELSE UNCHANGED <<pc, failure>>
    /\ UNCHANGED <<textVars, envVars, data, X, y, split, model, facade, loads,
                   lastPredict, app, display>>

\* user_text.strip() == ""
IsBlank(t) == \A i \in DOMAIN t : t[i] \in SpaceChars

\* app.py lines 107-158: the button is clicked with t in the text area.
DetectClicked(t) ==
    /\ pc = "ready"
    /\ mode = "app"
    /\ app = "serving"
    /\ IF IsBlank(t)
       THEN /\ display' = [NoDisplay EXCEPT !.kind = "warning"]
            /\ UNCHANGED <<lastPredict, lastConf>>
       ELSE LET r == predict_emotion_with_confidence(model, t)
                q == predict_emotion(model, t)
            IN  /\ lastConf' = [called |-> TRUE, input |-> t, raised |-> r.raised,
                                label |-> r.label, confidence |-> r.confidence]
                /\ lastPredict' =
                      IF r.raised
                      THEN [called |-> TRUE, input |-> t, raised |-> q.raised,
                            label |-> q.label]
                      ELSE lastPredict
                /\ display' =
                      IF ~r.raised
                      THEN [kind |-> "result", emotion |-> r.label,
                            confidence |-> r.confidence, known |-> r.label \in Emotions]
                      ELSE IF ~q.raised
                      THEN [kind |-> "result", emotion |-> q.label,
                            confidence |-> DefaultConfidence, known |-> q.label \in Emotions]
                      ELSE [NoDisplay EXCEPT !.kind = "error"]
    /\ UNCHANGED <<textVars, envVars, startVars, app>>

\* The process has ended, or is ended, and the program is started again; the
\* file stays as the run left it.
Restart ==
    /\ pc \in {"failed", "exited", "ready"}
    /\ run < MaxRuns
    /\ run' = run + 1
    /\ mode' \in Modes
    /\ app' = AppStart(mode')
    /\ Fresh
    /\ UNCHANGED <<textVars, file, environment, loads>>

Next ==
    \/ Setup
    \/ Load
    \/ CleanColumn
    \/ Select
    \/ Split
    \/ Fit
    \/ Evaluate
    \/ Define
    \/ SelfTest
    \/ Exit
    \/ \E t \in Inputs : PredictEmotion(t)
    \/ \E t \in Inputs : PredictEmotionWithConfidence(t)
    \/ \E t \in AppTexts : DetectClicked(t)
    \/ Restart

Spec == Init /\ [][Next]_vars

\* ------------------------------------------------------------------------
\* Properties.
\* ------------------------------------------------------------------------

\* Whether the body of predict_emotion(t) raises on the current pipeline.
PredictFails(t) ==
    CleanCall(t).raised \/ OutcomeOf(model, CleanCall(t).value).predictRaises

\* Whether the body of predict_emotion_with_confidence(t) raises.
ConfidenceFails(t) ==
    \/ PredictFails(t)
    \/ model.hasProba /\ OutcomeOf(model, CleanCall(t).value).probaRaises

\* C1: the confidence returned by predict_emotion_with_confidence, and the one
\* app.py shows, is between 0 and 100 percent whatever the pipeline did.
ConfidenceInRange ==
    /\ lastConf.called => 0 <= lastConf.confidence /\ lastConf.confidence <= 1000
    /\ display.kind = "result" => 0 <= display.confidence /\ display.confidence <= 1000

\* C1 witness: a confidence computed from predict_proba, 100 percent here, was
\* returned.
ConfidenceComputed ==
    /\ lastConf.called
    /\ ~ConfidenceFails(lastConf.input)
    /\ model.hasProba
    /\ lastConf.confidence = 1000

\* C2: called on the same text, predict_emotion and
\* predict_emotion_with_confidence return the same label, also when a pipeline
\* method raised.
SameLabelFromBoth ==
    (lastPredict.called /\ lastConf.called /\ lastPredict.input = lastConf.input)
        => lastPredict.label = lastConf.label

\* C3: an exception inside a prediction call does not leave the function; the
\* call returns "neutral" (with 50.0), and the process goes on serving calls.
ExceptionsAbsorbed ==
    /\ (lastPredict.called /\ PredictFails(lastPredict.input)) =>
          /\ ~lastPredict.raised
          /\ lastPredict.label = Neutral
          /\ pc = "ready" /\ facade
    /\ (lastConf.called /\ ConfidenceFails(lastConf.input)) =>
          /\ ~lastConf.raised
          /\ lastConf.label = Neutral
          /\ lastConf.confidence = ErrorConfidence
          /\ pc = "ready" /\ facade

\* C3 witness: both functions were called on texts on which a pipeline method
\* raised.
ExceptionsHappened ==
    /\ lastPredict.called /\ lastPredict.input # BadObject
    /\ PredictFails(lastPredict.input)
    /\ lastConf.called /\ lastConf.input # BadObject
    /\ ConfidenceFails(lastConf.input)

\* C4: every label the two functions return is one of happy, sad, angry, fear,
\* neutral, whatever dataset start-up accepted.
LabelInClosedSet ==
    /\ lastPredict.called => lastPredict.label \in Emotions
    /\ lastConf.called => lastConf.label \in Emotions

\* C5: clean_text is idempotent.
CleanTextIdempotent == stage = 2 => recleaned = cleaned

\* C6: the result of clean_text holds no digit.
CleanTextHasNoDigit ==
    /\ stage >= 1 => \A i \in DOMAIN cleaned : cleaned[i] \notin DigitChars
    /\ stage = 2 => \A i \in DOMAIN recleaned : recleaned[i] \notin DigitChars

\* C6 witness: a text with a digit in it was cleaned to a text that is not
\* empty.
DigitsWereRemoved ==
    /\ stage >= 1
    /\ \E i \in DOMAIN text : text[i] \in DigitChars
    /\ cleaned # <<>>

\* C7: a load that finds no file returns the built-in dataset and writes the
\* file; the load of the next run finds the file, does not write it, and
\* returns the same columns and rows in the same order.
DatasetRoundTrip ==
    \A i \in DOMAIN loads :
        ~loads[i].existed =>
            /\ loads[i].error = "none"
            /\ loads[i].wrote
            /\ loads[i].data = BuiltinData
            /\ file.exists
            /\ (i + 1) \in DOMAIN loads =>
                  /\ loads[i + 1].existed
                  /\ loads[i + 1].error = "none"
                  /\ ~loads[i + 1].wrote
                  /\ loads[i + 1].data = loads[i].data

\* C7 witness: a run that found no file was followed by a run that loaded.
SecondRunLoaded ==
    /\ Len(loads) >= 2
    /\ ~loads[1].existed
    /\ loads[2].run = loads[1].run + 1

\* C8: load_dataset_from_csv does not return a dataset read from a file that
\* lacks the text or the emotion column: the load itself fails.
MissingColumnFailsLoad ==
    \A i \in DOMAIN loads :
        (loads[i].existed /\ loads[i].error = "none") =>
            /\ \E k \in DOMAIN loads[i].data.columns : loads[i].data.columns[k] = TextCol
            /\ \E k \in DOMAIN loads[i].data.columns : loads[i].data.columns[k] = EmotionCol

\* The statements of start-up.
StartupSteps == {"setup", "load", "clean", "select", "split", "fit", "evaluate"}

\* C9: the prediction functions exist, are called and feed the page of app.py
\* only with a fitted pipeline; after a start-up failure they do not exist and
\* app.py does not serve.
NoFacadeWithoutFit ==
    /\ facade => model.fitted
    /\ app = "serving" => facade /\ model.fitted
    /\ (lastPredict.called \/ lastConf.called \/ display.kind = "result") =>
          facade /\ model.fitted
    /\ (failure.at \in StartupSteps) =>
          /\ ~facade
          /\ app # "serving"
          /\ ~lastPredict.called /\ ~lastConf.called /\ display = NoDisplay

\* C9 witness: under app.py, start-up failed in model.fit (one class only).
FitFailedUnderApp ==
    /\ pc = "failed"
    /\ failure = [at |-> "fit", error |-> "ValueError"]
    /\ Cardinality(split.classes) = 1
    /\ mode = "app"
    /\ app = "crashed"

\* C10: a run that finds no file, and so trains on the built-in dataset, does
\* not fail in the split or the fit.
BuiltinDatasetTrains ==
    (/\ loads # <<>>
     /\ loads[Len(loads)].run = run
     /\ ~loads[Len(loads)].existed
     /\ environment = "ok")
        => failure.at \notin {"split", "fit"}

====
